---- MODULE Spec2Model ----
(***************************************************************************)
(* A model of nhl_stat.py: the roster index builder (update_data), the     *)
(* snapshot file, main's control flow, the game-day aggregator             *)
(* (show_nat_games, print_player_stats) and the time-on-ice conversion     *)
(* (print_player_stats lines 263-264, get_toi_str).                        *)
(***************************************************************************)
EXTENDS Integers, Sequences, FiniteSets, TLC

(***************************************************************************)
(* Python floats (IEEE-754 binary64) as used by the time-on-ice code.      *)
(* Every value the program computes there is a non-negative multiple of    *)
(* 2^-60 below 2^13, so a float is held exactly as an integer part i and   *)
(* three 20-bit limbs f = <<f1, f2, f3>> of fraction:                      *)
(*      value = i + f1/2^20 + f2/2^40 + f3/2^60.                           *)
(* Each operation computes the exact result and rounds it to 53            *)
(* significant bits, ties to even, as the hardware does.                   *)
(***************************************************************************)
LimbBits == 20

SignificandBits == 53

LimbBase == 2^LimbBits

FracBits == 3 * LimbBits

RECURSIVE BitLen(_)
BitLen(n) == IF n = 0 THEN 0 ELSE 1 + BitLen(n \div 2)

FloatOfInt(n) == [i |-> n, f |-> <<0, 0, 0>>]

\* carries of an exact limb-wise result
Normalize(i, a1, a2, a3) ==
  LET c3 == a3 \div LimbBase
      b2 == a2 + c3
      c2 == b2 \div LimbBase
      b1 == a1 + c2
      c1 == b1 \div LimbBase
  IN  [i |-> i + c1, f |-> <<b1 % LimbBase, b2 % LimbBase, a3 % LimbBase>>]

\* how many of the 60 fraction bits lie below the 53rd significant bit
DropBits(x) ==
  LET e == IF x.i > 0 THEN BitLen(x.i) ELSE BitLen(x.f[1]) - LimbBits
  IN  FracBits - (SignificandBits - e)

\* round-to-nearest, ties-to-even, of the exact value x (+ a non-zero tail
\* below 2^-60 when sticky)
RoundNearestEven(x, sticky) ==
  LET d == DropBits(x)
  IN  IF d <= 0 \/ d > LimbBits \/ (x.i = 0 /\ x.f[1] = 0) THEN x
      ELSE
        LET unit == 2^d
            half == 2^(d - 1)
            low  == x.f[3] % unit
            keep == x.f[3] - low
            odd  == IF d < LimbBits THEN (x.f[3] \div unit) % 2 = 1
                                    ELSE x.f[2] % 2 = 1
            up   == \/ low > half
                    \/ low = half /\ sticky
                    \/ low = half /\ ~sticky /\ odd
        IN  IF up THEN Normalize(x.i, x.f[1], x.f[2], keep + unit)
                  ELSE [i |-> x.i, f |-> <<x.f[1], x.f[2], keep>>]

\* float(s) / 60 for an integer 0 <= s < 60
FloatDiv60(s) ==
  LET n1 == s * LimbBase
      n2 == (n1 % 60) * LimbBase
      n3 == (n2 % 60) * LimbBase
  IN  RoundNearestEven([i |-> 0, f |-> <<n1 \div 60, n2 \div 60, n3 \div 60>>],
                       n3 % 60 # 0)

\* x + y
FloatAdd(x, y) ==
  RoundNearestEven(Normalize(x.i + y.i, x.f[1] + y.f[1], x.f[2] + y.f[2],
                             x.f[3] + y.f[3]), FALSE)

\* x * 60
FloatMul60(x) ==
  RoundNearestEven(Normalize(x.i * 60, x.f[1] * 60, x.f[2] * 60, x.f[3] * 60),
                   FALSE)

\* math.floor(x)
Floor(x) == x.i

\* x - math.floor(x): exact, the fraction has at most 53 significant bits
FloatFrac(x) == [i |-> 0, f |-> x.f]

(***************************************************************************)
(* Time on ice.  A "mm:ss" string is held as its two parts: the minutes    *)
(* as a number and the seconds as their decimal digits.                    *)
(***************************************************************************)
\* "{:02}".format(n)
Pad2(n) == IF n < 10 THEN <<0, n>> ELSE <<n \div 10, n % 10>>

\* float(digits) of a two-digit part
ParseDigits(ds) == 10 * ds[1] + ds[2]

\* print_player_stats: toi.split(":"), float(parts[0]) + float(parts[1])/60
toi_float_of(toi) ==
  FloatAdd(FloatOfInt(toi.mins), FloatDiv60(ParseDigits(toi.secs)))

\* get_toi_str
get_toi_str(toi_float) ==
  LET toi_mins == Floor(toi_float)
      toi_secs == Floor(FloatMul60(FloatFrac(toi_float)))
  IN  [mins |-> toi_mins, secs |-> Pad2(toi_secs)]

(***************************************************************************)
(* Python values.  None is a value of its own; a dict is a function on     *)
(* its keys; strings of the model are ordered as Python orders them.       *)
(***************************************************************************)
None == [none |-> TRUE]

NoneStr == "<None>"

Range(s) == {s[i] : i \in 1..Len(s)}

\* truth value of a string-or-None
TruthyStr(v) == v # NoneStr /\ v # ""

\* truth value of a dict-or-None
TruthyDict(v) == v # None /\ DOMAIN v # {}

\* rank of the model's strings in Python's string order
StrRank(s) == CASE s = "" -> 0 [] s = "CAN" -> 1 [] s = "CHE" -> 2 [] OTHER -> 3

RECURSIVE Insert(_, _)
Insert(s, x) ==
  IF s = <<>> THEN <<x>>
  ELSE IF StrRank(x) < StrRank(Head(s)) THEN <<x>> \o s
  ELSE <<Head(s)>> \o Insert(Tail(s), x)

\* sorted(list of strings)
RECURSIVE sorted(_)
sorted(s) == IF s = <<>> THEN <<>> ELSE Insert(sorted(Tail(s)), Head(s))

(***************************************************************************)
(* The snapshot file and the remote service.                               *)
(***************************************************************************)
NoFile == [exists |-> FALSE]

\* write_json_file: json.dumps(data) written to the file
write_json_file(data) == [exists |-> TRUE, text |-> <<"json", data>>]

\* read_json_file: json.loads of the file's text
read_json_file(f) == f.text[2]

EmptyData == [nationalities |-> <<>>, players |-> <<>>, teams |-> <<>>]

\* a slip: only server errors taken as failures
get_url_json_fatal_5xx(status_code) == status_code >= 500

\* get_url_json: a response other than 200 is fatal
get_url_json_fatal(status_code) == status_code # 200

PersonIds == {1, 2}

StatusCodes == {200, 404}

\* player profiles of the service: the keys nationality and birthCountry
\* are each present or not, and a present nationality may be empty
Profiles(id) ==
  { [id |-> id],
    [id |-> id, nationality |-> "CHE"],
    [id |-> id, birthCountry |-> "CAN"],
    [id |-> id, nationality |-> "CHE", birthCountry |-> "CAN"],
    [id |-> id, nationality |-> "", birthCountry |-> "CAN"] }

\* /people/<id>: the people list holds the profile, or is empty
PeopleLists(id) == {<<>>} \cup {<<p>> : p \in Profiles(id)}

\* get_player
get_player(people) == IF Len(people) > 0 THEN people[1] ELSE None

\* a slip: the birth country preferred
get_player_nationality_birth_first(player) ==
  IF "birthCountry" \in DOMAIN player THEN player.birthCountry
  ELSE IF "nationality" \in DOMAIN player THEN player.nationality
  ELSE NoneStr

\* get_player_nationality: the value returned
get_player_nationality(player) ==
  IF "nationality" \in DOMAIN player THEN player.nationality
  ELSE IF "birthCountry" \in DOMAIN player THEN player.birthCountry
  ELSE NoneStr

\* get_player_nationality: whether the diagnostic is logged
get_player_nationality_logs(player) ==
  ~("nationality" \in DOMAIN player) /\ ~("birthCountry" \in DOMAIN player)

(***************************************************************************)
(* update_data: the body of the loops                                      *)
(***************************************************************************)
\* line 129
add_team(d, team) == [d EXCEPT !.teams = Append(@, [id |-> team.id])]

\* a slip: only the first nationality met is recorded
add_nationality_first_only(nats, nationality) ==
  IF nats # <<>> THEN nats ELSE Append(nats, nationality)

\* lines 141-142
add_nationality(nats, nationality) ==
  IF nationality \in Range(nats) THEN nats ELSE Append(nats, nationality)

\* lines 134-142
add_player(d, team, player) ==
  IF TruthyDict(player)
  THEN LET nationality == get_player_nationality(player)
       IN  IF TruthyStr(nationality)
           THEN [d EXCEPT
                   !.players = Append(@, [id |-> player.id,
                                          team |-> [id |-> team.id],
                                          nationality |-> nationality]),
                   !.nationalities = add_nationality(@, nationality)]
           ELSE d
  ELSE d

\* line 144
sort_nationalities(d) == [d EXCEPT !.nationalities = sorted(@)]

\* update_data over a whole walk: feed[t] holds team t's roster, each entry
\* the people list its profile fetch returns
RECURSIVE walk_roster(_, _, _)
walk_roster(d, team, people_lists) ==
  IF people_lists = <<>> THEN d
  ELSE walk_roster(add_player(d, team, get_player(Head(people_lists))), team,
                   Tail(people_lists))

RECURSIVE walk_teams(_, _)
walk_teams(d, feed) ==
  IF feed = <<>> THEN d
  ELSE walk_teams(walk_roster(add_team(d, Head(feed).team), Head(feed).team,
                              Head(feed).roster), Tail(feed))

\* lines 123-144: the index update_data builds from a walk without failures
update_data_walk(feed) == sort_nationalities(walk_teams(EmptyData, feed))

(***************************************************************************)
(* main: the checks on the nationality argument                            *)
(***************************************************************************)
\* a slip: no check of the nationality against the index
nationality_known_unchecked(nationality, d) == TRUE

\* line 344
nationality_known(nationality, d) == nationality \in Range(d.nationalities)

(***************************************************************************)
(* show_nat_games and print_player_stats                                   *)
(***************************************************************************)
\* line 168: the list comprehension, from position `from` on; the players
\* of the nationality are held as positions in the index's players list
RECURSIVE nat_players_from(_, _, _)
nat_players_from(players, nationality, from) ==
  IF from > Len(players) THEN <<>>
  ELSE (IF players[from].nationality = nationality THEN <<from>> ELSE <<>>)
         \o nat_players_from(players, nationality, from + 1)

\* line 168: nat_players
nat_players_of(d, nationality) == nat_players_from(d.players, nationality, 1)

\* a slip: the side's players collected in reverse
RECURSIVE side_players_reversed(_, _, _)
side_players_reversed(d, nat_players, team_id) ==
  IF nat_players = <<>> THEN <<>>
  ELSE side_players_reversed(d, Tail(nat_players), team_id)
       \o (IF d.players[Head(nat_players)].team.id = team_id
           THEN <<Head(nat_players)>> ELSE <<>>)

\* lines 185-189 and 191-195: the players of nat_players on one side's team
RECURSIVE side_players(_, _, _)
side_players(d, nat_players, team_id) ==
  IF nat_players = <<>> THEN <<>>
  ELSE (IF d.players[Head(nat_players)].team.id = team_id
        THEN <<Head(nat_players)>> ELSE <<>>)
       \o side_players(d, Tail(nat_players), team_id)

\* the ids of a list of positions
ids_of(d, ps) == [j \in 1..Len(ps) |-> d.players[ps[j]].id]

\* a slip: the home side's players not recorded as having a game
today_after_away_only(today_ids, d, away, home) == today_ids \o ids_of(d, away)

\* lines 190 and 196: nat_player_ids_today after one game
today_after(today_ids, d, away, home) ==
  today_ids \o ids_of(d, away) \o ids_of(d, home)

\* line 238: nat_player_ids_dnp_today
RECURSIVE dnp_today(_, _)
dnp_today(nat_player_ids, today_ids) ==
  IF nat_player_ids = <<>> THEN <<>>
  ELSE (IF Head(nat_player_ids) \in Range(today_ids) THEN <<>>
        ELSE <<Head(nat_player_ids)>>)
       \o dnp_today(Tail(nat_player_ids), today_ids)

\* lines 244-247: a line for every player of nat_players with a listed id
RECURSIVE no_game_lines(_, _, _)
no_game_lines(d, nat_players, dnp_ids) ==
  IF dnp_ids = <<>> THEN <<>>
  ELSE LET Test(pos) == d.players[pos].id = Head(dnp_ids)
       IN  SelectSeq(nat_players, Test) \o no_game_lines(d, nat_players, Tail(dnp_ids))

ZeroTotals ==
  [count |-> 0, goals |-> 0, assists |-> 0, points |-> 0, toi |-> FloatOfInt(0),
   hits |-> 0, blocks |-> 0, plusminus |-> 0, pim |-> 0, fo_win |-> 0, fo_total |-> 0]

\* line 250
has_skater_stats(player_stats) == "skaterStats" \in DOMAIN player_stats.stats

\* a slip: the entry counted before the check for skater statistics
print_player_stats_counts_all(tot, player_stats) ==
  IF "skaterStats" \in DOMAIN player_stats.stats
  THEN LET s == player_stats.stats.skaterStats
       IN  [count     |-> tot.count + 1,
            goals     |-> tot.goals + s.goals,
            assists   |-> tot.assists + s.assists,
            points    |-> tot.points + s.goals + s.assists,
            toi       |-> FloatAdd(tot.toi, toi_float_of(s.timeOnIce)),
            hits      |-> tot.hits + s.hits,
            blocks    |-> tot.blocks + s.blocked,
            plusminus |-> tot.plusminus + s.plusMinus,
            pim       |-> tot.pim + s.penaltyMinutes,
            fo_win    |-> tot.fo_win + s.faceOffWins,
            fo_total  |-> tot.fo_total + s.faceoffTaken]
  ELSE [tot EXCEPT !.count = @ + 1]

\* lines 250-276: the totals after print_player_stats
print_player_stats(tot, player_stats) ==
  IF has_skater_stats(player_stats)
  THEN LET s == player_stats.stats.skaterStats
           points == s.goals + s.assists
       IN  [count     |-> tot.count + 1,
            goals     |-> tot.goals + s.goals,
            assists   |-> tot.assists + s.assists,
            points    |-> tot.points + points,
            toi       |-> FloatAdd(tot.toi, toi_float_of(s.timeOnIce)),
            hits      |-> tot.hits + s.hits,
            blocks    |-> tot.blocks + s.blocked,
            plusminus |-> tot.plusminus + s.plusMinus,
            pim       |-> tot.pim + s.penaltyMinutes,
            fo_win    |-> tot.fo_win + s.faceOffWins,
            fo_total  |-> tot.fo_total + s.faceoffTaken]
  ELSE tot

\* get_plusminus_str: the sign printed and the digits
get_plusminus_str(plusminus) ==
  IF plusminus >= 0 THEN [sign |-> "+", digits |-> plusminus]
  ELSE [sign |-> "-", digits |-> 0 - plusminus]

\* lines 282-298: the totals line
print_total_stats(tot) ==
  [count |-> tot.count, goals |-> tot.goals, assists |-> tot.assists,
   points |-> tot.points, toi |-> get_toi_str(tot.toi), hits |-> tot.hits,
   blocks |-> tot.blocks, plusminus |-> get_plusminus_str(tot.plusminus),
   pim |-> tot.pim, fo_win |-> tot.fo_win, fo_total |-> tot.fo_total]

\* a line of output
Line(kind, game, side, idx, id) ==
  [kind |-> kind, game |-> game, side |-> side, idx |-> idx, id |-> id]

(***************************************************************************)
(* The inputs of a run                                                     *)
(***************************************************************************)
Nationalities == {NoneStr, "CHE", "CAN"}

Args == [update_data : BOOLEAN, show_players : BOOLEAN, show_games : BOOLEAN,
         show_nationalities : BOOLEAN, nationality : Nationalities]

\* rosters of the walks main's runs are checked with: the people list of
\* each roster entry
RosterCHE1 == << <<[id |-> 1, nationality |-> "CHE"]>> >>

RosterCHE2 == << <<[id |-> 2, nationality |-> "CHE"]>> >>

RosterCAN2 == << <<[id |-> 2, birthCountry |-> "CAN"]>> >>

RosterTwo ==
  << <<[id |-> 1, nationality |-> "CHE"]>>,
     <<[id |-> 2, nationality |-> "CHE", birthCountry |-> "CAN"]>> >>

RosterSamples == {<<>>, RosterCHE1, RosterCHE2, RosterCAN2, RosterTwo}

\* the walks: the first team has all the indexed players, or each team
\* has one (the same person on both rosters included)
RosterPairs ==
  (RosterSamples \X {<<>>}) \cup ({RosterCHE1, RosterCAN2} \X {RosterCHE1, RosterCHE2})

LeagueFeeds ==
  { <<[team |-> [id |-> 1], roster |-> x[1]], [team |-> [id |-> 2], roster |-> x[2]]>> :
      x \in RosterPairs }

\* the snapshots an earlier run can have left
Snapshots == {write_json_file(update_data_walk(feed)) : feed \in LeagueFeeds}

GameTeams == {1, 2, 3}

Sides == {"away", "home"}

Unknown == [unknown |-> TRUE]

Absent == [absent |-> TRUE]

\* the skater line the boxscores hold for a player
SkaterLine(id) ==
  IF id = 1
  THEN [goals |-> 2, assists |-> 1, timeOnIce |-> [mins |-> 18, secs |-> <<4, 5>>],
        hits |-> 3, blocked |-> 1, plusMinus |-> 1, penaltyMinutes |-> 2,
        faceOffWins |-> 5, faceoffTaken |-> 9]
  ELSE [goals |-> 1, assists |-> 0, timeOnIce |-> [mins |-> 12, secs |-> <<3, 4>>],
        hits |-> 4, blocked |-> 6, plusMinus |-> 0 - 2, penaltyMinutes |-> 7,
        faceOffWins |-> 8, faceoffTaken |-> 10]

\* what a boxscore holds under a player's key: nothing, a goalie's entry or
\* a skater's
BoxEntries(id) ==
  {Absent, [stats |-> [goalieStats |-> TRUE]], [stats |-> [skaterStats |-> SkaterLine(id)]]}

\* the feeds of a game; a boxscore key is drawn when it is first looked up
GameFeeds ==
  { [away |-> m[1], home |-> m[2], status |-> st,
     box |-> [sd \in Sides |-> [p \in PersonIds |-> Unknown]]] :
      m \in {x \in GameTeams \X GameTeams : x[1] # x[2]}, st \in {"Preview", "Final"} }

MaxGames == 2

MaxTeams == 2

MaxRoster == 2

MaxMin == 12

\* /teams: the league's teams, numbered from 1
TeamLists == {[t \in 1..n |-> [id |-> t]] : n \in 0..MaxTeams}

\* rosters of at most n entries
RECURSIVE Rosters(_)
Rosters(n) ==
  IF n = 0 THEN {<<>>}
  ELSE Rosters(n - 1) \cup
       {Append(r, [person |-> [id |-> p]]) : r \in {x \in Rosters(n - 1) : Len(x) = n - 1},
                                             p \in PersonIds}

ToiStrings == [mins : 0..MaxMin, secs : {Pad2(s) : s \in 0..59}]

VARIABLES
  toi_pc, toi_in, toi_val, toi_out,           \* the time-on-ice round trip
  pc, file, exit_code,                        \* the run: position, snapshot file, exit code
  teams, ti, roster, ri, data,                \* update_data's locals
  walked, failed,                             \* what the walk fetched so far
  args, opts_data, out,                       \* main: the flags, opts['data'], the output
  games, sched, gi, k,                        \* show_nat_games: feeds and loop positions
  totals, today, no_game, totals_line         \* ... and what it accumulates and prints

toi_vars == <<toi_pc, toi_in, toi_val, toi_out>>

build_vars == <<teams, ti, roster, ri, data, walked, failed>>

run_vars == <<pc, file, exit_code>>

main_vars == <<args, opts_data, out>>

game_vars == <<games, sched, gi, k, totals, today, no_game, totals_line>>

vars == <<toi_vars, run_vars, build_vars, main_vars, game_vars>>

NoFloat == FloatOfInt(0)

NoToi == [mins |-> 0, secs |-> <<0, 0>>]

Running == 0 - 1

Unset == [unset |-> TRUE]

NoArgs == [update_data |-> FALSE, show_players |-> FALSE, show_games |-> FALSE,
           show_nationalities |-> FALSE, nationality |-> NoneStr]

MainIdle ==
  /\ args = NoArgs
  /\ opts_data = Unset
  /\ out = <<>>

GameIdle ==
  /\ games = <<>>
  /\ sched = 0
  /\ gi = 0
  /\ k = 0
  /\ totals = ZeroTotals
  /\ today = <<>>
  /\ no_game = <<>>
  /\ totals_line = None

ToiIdle ==
  /\ toi_pc = "idle"
  /\ toi_in = NoToi
  /\ toi_val = NoFloat
  /\ toi_out = NoToi

BuildIdle ==
  /\ teams = <<>>
  /\ ti = 0
  /\ roster = <<>>
  /\ ri = 0
  /\ data = EmptyData
  /\ walked = <<>>
  /\ failed = FALSE

(***************************************************************************)
(* The time-on-ice round trip                                              *)
(***************************************************************************)
ToiInit ==
  /\ toi_pc = "split"
  /\ toi_in \in ToiStrings
  /\ toi_val = NoFloat
  /\ toi_out = NoToi
  /\ pc = "idle" /\ file = NoFile /\ exit_code = Running
  /\ BuildIdle
  /\ MainIdle
  /\ GameIdle

ToiConvert ==
  /\ toi_pc = "split"
  /\ toi_val' = toi_float_of(toi_in)
  /\ toi_pc' = "format"
  /\ UNCHANGED <<toi_in, toi_out, run_vars, build_vars, main_vars, game_vars>>

ToiFormat ==
  /\ toi_pc = "format"
  /\ toi_out' = get_toi_str(toi_val)
  /\ toi_pc' = "done"
  /\ UNCHANGED <<toi_in, toi_val, run_vars, build_vars, main_vars, game_vars>>

ToiNext == ToiConvert \/ ToiFormat

SpecToi == ToiInit /\ [][ToiNext]_vars

(***************************************************************************)
(* update_data, fetch by fetch                                             *)
(***************************************************************************)
BuildInit ==
  /\ pc = "get_teams"
  /\ file = NoFile
  /\ exit_code = Running
  /\ teams = <<>>
  /\ ti = 0
  /\ roster = <<>>
  /\ ri = 0
  /\ data = EmptyData
  /\ walked = <<>>
  /\ failed = FALSE
  /\ ToiIdle
  /\ MainIdle
  /\ GameIdle

\* fatal(): log and sys.exit(1)
Fatal ==
  /\ pc' = "exit"
  /\ exit_code' = 1

\* lines 123-126: get_teams()
GetTeams ==
  /\ pc = "get_teams"
  /\ \E status_code \in StatusCodes :
       \E ts \in (IF status_code = 200 THEN TeamLists ELSE {<<>>}) :
         /\ failed' = (failed \/ status_code # 200)
         /\ IF get_url_json_fatal(status_code)
            THEN Fatal /\ UNCHANGED <<teams, ti>>
            ELSE /\ teams' = ts
                 /\ ti' = 1
                 /\ pc' = "team"
                 /\ UNCHANGED exit_code
  /\ UNCHANGED <<file, roster, ri, data, walked, toi_vars, main_vars, game_vars>>

\* lines 127-131: the next team of the loop, get_roster(team)
NextTeam ==
  /\ pc = "team"
  /\ ti <= Len(teams)
  /\ data' = add_team(data, teams[ti])
  /\ \E status_code \in StatusCodes :
       \E r \in (IF status_code = 200 THEN Rosters(MaxRoster - Len(walked)) ELSE {<<>>}) :
         /\ failed' = (failed \/ status_code # 200)
         /\ IF get_url_json_fatal(status_code)
            THEN Fatal /\ UNCHANGED <<roster, ri>>
            ELSE /\ roster' = r
                 /\ ri' = 1
                 /\ pc' = "player"
                 /\ UNCHANGED exit_code
  /\ UNCHANGED <<file, teams, ti, walked, toi_vars, main_vars, game_vars>>

\* lines 132-142: the next roster entry, get_player(roster_player)
NextPlayer ==
  /\ pc = "player"
  /\ ri <= Len(roster)
  /\ \E status_code \in StatusCodes :
       \E people \in (IF status_code = 200 THEN PeopleLists(roster[ri].person.id) ELSE {<<>>}) :
         /\ failed' = (failed \/ status_code # 200)
         /\ IF get_url_json_fatal(status_code)
            THEN Fatal /\ UNCHANGED <<data, ri, walked>>
            ELSE LET player == get_player(people)
                 IN  /\ data' = add_player(data, teams[ti], player)
                     /\ walked' = Append(walked,
                          [person |-> roster[ri].person.id,
                           team |-> teams[ti].id,
                           people |-> people,
                           added |-> Len(data'.players) > Len(data.players),
                           logged |-> TruthyDict(player) /\ get_player_nationality_logs(player)])
                     /\ ri' = ri + 1
                     /\ UNCHANGED <<pc, exit_code>>
  /\ UNCHANGED <<file, teams, ti, roster, toi_vars, main_vars, game_vars>>

\* line 132: the roster is exhausted, back to the loop over teams
RosterDone ==
  /\ pc = "player"
  /\ ri > Len(roster)
  /\ ti' = ti + 1
  /\ pc' = "team"
  /\ UNCHANGED <<file, exit_code, teams, roster, ri, data, walked, failed, toi_vars, main_vars, game_vars>>

\* lines 144-146: the teams are exhausted, sort and write the snapshot
WriteSnapshot ==
  /\ pc = "team"
  /\ ti > Len(teams)
  /\ data' = sort_nationalities(data)
  /\ file' = write_json_file(data')
  /\ pc' = "return"
  /\ UNCHANGED <<exit_code, teams, ti, roster, ri, walked, failed, toi_vars, main_vars, game_vars>>

BuildNext == GetTeams \/ NextTeam \/ NextPlayer \/ RosterDone \/ WriteSnapshot

SpecBuild == BuildInit /\ [][BuildNext]_vars

(***************************************************************************)
(* main                                                                    *)
(***************************************************************************)
Init ==
  /\ pc = "main"
  /\ args \in Args
  /\ file \in {NoFile} \cup Snapshots
  /\ exit_code = Running
  /\ opts_data = Unset
  /\ out = <<>>
  /\ BuildIdle
  /\ GameIdle
  /\ ToiIdle

\* an exception nobody catches: the traceback, exit status 1
Uncaught ==
  /\ pc' = "exit"
  /\ exit_code' = 1

\* sys.exit(0), or main returning
ExitOk ==
  /\ pc' = "exit"
  /\ exit_code' = 0

\* lines 332-333: opts['data'] = update_data(args, opts), which walks the
\* league, writes the snapshot and returns nothing
MainUpdateData ==
  /\ pc = "main"
  /\ args.update_data \/ file = NoFile
  /\ \E status_code \in StatusCodes, feed \in LeagueFeeds :
       IF get_url_json_fatal(status_code)
       THEN Fatal /\ UNCHANGED <<file, opts_data>>
       ELSE /\ file' = write_json_file(update_data_walk(feed))
            /\ opts_data' = None
            /\ pc' = "queries"
            /\ UNCHANGED exit_code
  /\ UNCHANGED <<args, out, build_vars, game_vars, toi_vars>>

\* lines 334-335
MainReadFile ==
  /\ pc = "main"
  /\ ~(args.update_data \/ file = NoFile)
  /\ opts_data' = read_json_file(file)
  /\ pc' = "queries"
  /\ UNCHANGED <<file, exit_code, args, out, build_vars, game_vars, toi_vars>>

\* lines 337-339, show_nationalities
ShowNationalities ==
  /\ pc = "queries"
  /\ args.show_nationalities
  /\ IF opts_data = None
     THEN Uncaught /\ UNCHANGED out
     ELSE ExitOk /\ out' = Append(out, Line("nationalities", 0, "", 0, 0))
  /\ UNCHANGED <<file, args, opts_data, build_vars, game_vars, toi_vars>>

\* lines 341-347
CheckNationality ==
  /\ pc = "queries"
  /\ ~args.show_nationalities
  /\ args.show_players \/ args.show_games
  /\ IF args.nationality = NoneStr THEN Fatal
     ELSE IF opts_data = None THEN Uncaught
     ELSE IF ~nationality_known(args.nationality, opts_data) THEN Fatal
     ELSE pc' = "show_players" /\ UNCHANGED exit_code
  /\ UNCHANGED <<file, main_vars, build_vars, game_vars, toi_vars>>

\* neither query is asked for: main returns
NoQuery ==
  /\ pc = "queries"
  /\ ~args.show_nationalities
  /\ ~(args.show_players \/ args.show_games)
  /\ ExitOk
  /\ UNCHANGED <<file, main_vars, build_vars, game_vars, toi_vars>>

\* lines 349-350, show_nat_players
ShowPlayers ==
  /\ pc = "show_players"
  /\ out' = IF args.show_players
            THEN Append(out, Line("players", 0, "",
                                  Len(nat_players_of(opts_data, args.nationality)), 0))
            ELSE out
  /\ pc' = "show_games"
  /\ UNCHANGED <<file, exit_code, args, opts_data, build_vars, game_vars, toi_vars>>

\* lines 352-356
ShowGames ==
  /\ pc = "show_games"
  /\ IF args.show_games THEN pc' = "get_games" /\ UNCHANGED exit_code ELSE ExitOk
  /\ UNCHANGED <<file, main_vars, build_vars, game_vars, toi_vars>>

(***************************************************************************)
(* show_nat_games                                                          *)
(***************************************************************************)
nat_players == nat_players_of(opts_data, args.nationality)

nat_away_players == side_players(opts_data, nat_players, games[gi].away)

nat_home_players == side_players(opts_data, nat_players, games[gi].home)

\* lines 114-116: the schedule of the date
GetSchedule ==
  /\ pc = "get_games"
  /\ \E status_code \in StatusCodes, n \in 0..MaxGames :
       /\ status_code # 200 => n = 0
       /\ IF get_url_json_fatal(status_code)
          THEN Fatal /\ UNCHANGED sched
          ELSE /\ sched' = n
               /\ pc' = IF n = 0 THEN "report" ELSE "get_game"
               /\ UNCHANGED exit_code
  /\ UNCHANGED <<file, main_vars, build_vars, toi_vars,
                 games, gi, k, totals, today, no_game, totals_line>>

\* lines 117-119: the feed of the next scheduled game
GetGame ==
  /\ pc = "get_game"
  /\ \E status_code \in StatusCodes :
       \E feed \in (IF status_code = 200 THEN GameFeeds ELSE {None}) :
         IF get_url_json_fatal(status_code)
         THEN Fatal /\ UNCHANGED games
         ELSE /\ games' = Append(games, feed)
              /\ pc' = IF Len(games') = sched THEN "report" ELSE "get_game"
              /\ UNCHANGED exit_code
  /\ UNCHANGED <<file, main_vars, build_vars, toi_vars,
                 sched, gi, k, totals, today, no_game, totals_line>>

\* lines 168-175
ReportStart ==
  /\ pc = "report"
  /\ today' = <<>>
  /\ totals' = ZeroTotals
  /\ out' = Append(out, Line("games", Len(games), "", 0, 0))
  /\ gi' = 1
  /\ pc' = "game"
  /\ UNCHANGED <<file, exit_code, args, opts_data, build_vars, toi_vars,
                 games, sched, k, no_game, totals_line>>

\* lines 176-199: the next game's header and its candidates; the loops
\* over the two sides are entered at the first side that has a candidate
GameStart ==
  /\ pc = "game"
  /\ gi <= Len(games)
  /\ out' = Append(out, Line("header", gi, "", 0, 0))
  /\ today' = today_after(today, opts_data, nat_away_players, nat_home_players)
  /\ IF Len(nat_away_players) + Len(nat_home_players) = 0
     THEN gi' = gi + 1 /\ UNCHANGED <<pc, k>>
     ELSE /\ pc' = IF Len(nat_away_players) > 0 THEN "away" ELSE "home"
          /\ k' = 1
          /\ UNCHANGED gi
  /\ UNCHANGED <<file, exit_code, args, opts_data, build_vars, toi_vars,
                 games, sched, totals, no_game, totals_line>>

\* lines 215-223 and 226-234: one candidate of one side
PlayerLine(side, candidates) ==
  LET idx    == candidates[k]
      player == opts_data.players[idx]
      game   == games[gi]
      seen   == game.box[side][player.id]
  IN  IF game.status = "Preview"
      THEN /\ out' = Append(out, Line("not started", gi, side, idx, player.id))
           /\ UNCHANGED <<totals, games>>
      ELSE \E entry \in (IF seen = Unknown THEN BoxEntries(player.id) ELSE {seen}) :
             /\ games' = [games EXCEPT ![gi].box[side][player.id] = entry]
             /\ IF entry = Absent
                THEN /\ out' = Append(out, Line("did not play", gi, side, idx, player.id))
                     /\ UNCHANGED totals
                ELSE /\ totals' = print_player_stats(totals, entry)
                     /\ out' = IF has_skater_stats(entry)
                               THEN Append(out, Line("stats", gi, side, idx, player.id))
                               ELSE out

\* lines 214-223: the next away candidate; after the last one the home
\* side's loop, or the next game when the home side has no candidate
AwayPlayer ==
  /\ pc = "away"
  /\ k <= Len(nat_away_players)
  /\ PlayerLine("away", nat_away_players)
  /\ IF k < Len(nat_away_players)
     THEN k' = k + 1 /\ UNCHANGED <<pc, gi>>
     ELSE IF Len(nat_home_players) > 0
     THEN k' = 1 /\ pc' = "home" /\ UNCHANGED gi
     ELSE k' = 1 /\ pc' = "game" /\ gi' = gi + 1
  /\ UNCHANGED <<file, exit_code, args, opts_data, build_vars, toi_vars,
                 sched, today, no_game, totals_line>>

\* lines 225-234: the next home candidate; after the last one the next game
HomePlayer ==
  /\ pc = "home"
  /\ k <= Len(nat_home_players)
  /\ PlayerLine("home", nat_home_players)
  /\ IF k < Len(nat_home_players)
     THEN k' = k + 1 /\ UNCHANGED <<pc, gi>>
     ELSE k' = 1 /\ pc' = "game" /\ gi' = gi + 1
  /\ UNCHANGED <<file, exit_code, args, opts_data, build_vars, toi_vars,
                 sched, today, no_game, totals_line>>

\* lines 236-247: the totals line and the players without a game; main returns
PrintTotals ==
  /\ pc = "game"
  /\ gi > Len(games)
  /\ totals_line' = print_total_stats(totals)
  /\ no_game' = no_game_lines(opts_data, nat_players,
                              dnp_today(ids_of(opts_data, nat_players), today))
  /\ out' = Append(out, Line("totals", 0, "", 0, 0))
  /\ ExitOk
  /\ UNCHANGED <<file, args, opts_data, build_vars, toi_vars,
                 games, sched, gi, k, totals, today>>

Next ==
  \/ MainUpdateData \/ MainReadFile \/ ShowNationalities \/ CheckNationality
  \/ NoQuery \/ ShowPlayers \/ ShowGames
  \/ GetSchedule \/ GetGame \/ ReportStart \/ GameStart
  \/ AwayPlayer \/ HomePlayer \/ PrintTotals

Spec == Init /\ [][Next]_vars

(***************************************************************************)
(* Properties of update_data (SpecBuild)                                   *)
(***************************************************************************)
IndexOK(d) ==
  /\ \A i \in 1..Len(d.players) :
       /\ d.players[i].nationality \in Range(d.nationalities)
       /\ d.players[i].team.id \in {d.teams[j].id : j \in 1..Len(d.teams)}

\* C4: a fetch that returns a non-success response aborts the build there
\* with exit code 1, and the snapshot is written only if every fetch of the
\* walk succeeded.
C4_NoPartialSnapshot ==
  /\ failed => pc = "exit" /\ exit_code = 1 /\ file = NoFile
  /\ file # NoFile => ~failed /\ exit_code # 1

C4_Witness ==
  /\ failed
  /\ exit_code = 1
  /\ file = NoFile
  /\ Len(data.players) > 0

\* C5: player ids are unique within the players list of the index.
C5_UniqueIds ==
  \A i, j \in 1..Len(data.players) :
    i # j => data.players[i].id # data.players[j].id

\* C6: every player's nationality is in the index's nationalities and every
\* player's team id is the id of a team of the index, after each player that
\* is appended and in the snapshot written.
C6_IndexConsistent ==
  /\ IndexOK(data)
  /\ file # NoFile => IndexOK(read_json_file(file))

C6_Witness ==
  /\ file # NoFile
  /\ Len(read_json_file(file).players) >= 2
  /\ read_json_file(file).nationalities = <<"CAN", "CHE">>
  /\ read_json_file(file).players[1].nationality = "CHE"

\* the profile a roster entry's fetch returned (one without fields when
\* the people list was empty)
C8_Profile(w) == IF w.people = <<>> THEN [id |-> w.person] ELSE w.people[1]

C8_Neither(w) ==
  /\ ~("nationality" \in DOMAIN C8_Profile(w))
  /\ ~("birthCountry" \in DOMAIN C8_Profile(w))

C8_Preferred(w) ==
  IF "nationality" \in DOMAIN C8_Profile(w) THEN C8_Profile(w).nationality
  ELSE IF "birthCountry" \in DOMAIN C8_Profile(w) THEN C8_Profile(w).birthCountry
  ELSE NoneStr

C8_AddedUpTo(n) == Cardinality({m \in 1..n : walked[m].added})

\* an appended roster entry is in the players list with the preferred field
C8_AppendedAsPreferred ==
  \A n \in 1..Len(walked) :
    walked[n].added =>
      /\ C8_AddedUpTo(n) <= Len(data.players)
      /\ data.players[C8_AddedUpTo(n)] =
           [id |-> walked[n].person, team |-> [id |-> walked[n].team],
            nationality |-> C8_Preferred(walked[n])]

\* C8 as claimed: a rostered player is excluded, with a diagnostic and
\* without aborting the build, exactly when the profile has neither field;
\* every other one is appended with the nationality field, else birthCountry.
C8_ExcludedIffNeither ==
  /\ \A n \in 1..Len(walked) :
       /\ ~walked[n].added <=> C8_Neither(walked[n])
       /\ ~walked[n].added => walked[n].logged
  /\ C8_AppendedAsPreferred
  /\ pc = "exit" => failed

\* C8 as the code has it: excluded exactly when the fetch returns no person
\* or the preferred field is missing or empty; the diagnostic exactly when a
\* person is returned that has neither field; the build goes on.
C8_ExcludedIffNoValue ==
  /\ \A n \in 1..Len(walked) :
       /\ ~walked[n].added <=>
            (walked[n].people = <<>> \/ C8_Preferred(walked[n]) \in {NoneStr, ""})
       /\ walked[n].logged <=> (walked[n].people # <<>> /\ C8_Neither(walked[n]))
  /\ C8_AppendedAsPreferred
  /\ pc = "exit" => failed

C8_Witness ==
  /\ pc = "return"
  /\ Len(walked) = 2
  /\ ~walked[1].added /\ walked[1].logged
  /\ walked[2].added /\ ~("nationality" \in DOMAIN walked[2].people[1])
  /\ data.players[1].nationality = "CAN"

(***************************************************************************)
(* Properties of a run of main (Spec)                                      *)
(***************************************************************************)
ReportDone == pc = "exit" /\ totals_line # None

Index == opts_data.players

\* C3: whether built by update_data or loaded from the snapshot file, the
\* index main holds for the rest of the run is the one in the snapshot file.
C3_IndexHeld ==
  opts_data # Unset => file # NoFile /\ opts_data = read_json_file(file)

\* the index of the snapshot file as it is now
C7_Nationalities ==
  IF file = NoFile THEN {} ELSE Range(read_json_file(file).nationalities)

C7_Invalid ==
  /\ args.show_players \/ args.show_games
  /\ args.nationality = NoneStr \/ args.nationality \notin C7_Nationalities

C7_NothingShown ==
  /\ \A n \in 1..Len(out) :
       out[n].kind \notin {"players", "games", "header", "stats", "totals"}
  /\ pc = "exit" => exit_code = 1

\* C7 as claimed: for every combination of flags, a player list or game-day
\* report asked for without a nationality, or with one the index does not
\* have, ends the run with exit code 1 and produces neither.
C7_InvalidIsFatal == C7_Invalid => C7_NothingShown

\* C7 as the code has it: the same, unless --show-nationalities is given
\* (which is served first and ends the run with exit code 0).
C7_InvalidIsFatalUnlessListing ==
  C7_Invalid /\ ~args.show_nationalities => C7_NothingShown

C7_Witness ==
  /\ pc = "exit"
  /\ exit_code = 1
  /\ ~args.show_nationalities
  /\ args.show_players
  /\ args.nationality = "CAN"
  /\ opts_data \notin {Unset, None}
  /\ opts_data.nationalities = <<"CHE">>

C_Side(g, s) == IF s = 1 THEN games[g].away ELSE games[g].home

C_SideName(s) == IF s = 1 THEN "away" ELSE "home"

\* player i of the index is a candidate of side s of game g
C_Candidate(g, s, i) ==
  /\ Index[i].nationality = args.nationality
  /\ Index[i].team.id = C_Side(g, s)

C_Entry(g, s, i) == games[g].box[C_SideName(s)][Index[i].id]

\* ... and the game's boxscore holds skater statistics for the player
C1_Counts(g, s, i) ==
  /\ C_Candidate(g, s, i)
  /\ games[g].status # "Preview"
  /\ LET entry == C_Entry(g, s, i)
     IN  entry \notin {Unknown, Absent} /\ "skaterStats" \in DOMAIN entry.stats

\* the skater lines that count, from (game g, side s, player i) on
RECURSIVE C1_Lines(_, _, _)
C1_Lines(g, s, i) ==
  IF g > Len(games) THEN <<>>
  ELSE IF s > 2 THEN C1_Lines(g + 1, 1, 1)
  ELSE IF i > Len(Index) THEN C1_Lines(g, s + 1, 1)
  ELSE (IF C1_Counts(g, s, i) THEN <<C_Entry(g, s, i).stats.skaterStats>> ELSE <<>>)
       \o C1_Lines(g, s, i + 1)

\* the sum of one field of the lines
RECURSIVE C1_Sum(_, _)
C1_Sum(lines, field) ==
  IF lines = <<>> THEN 0 ELSE Head(lines)[field] + C1_Sum(Tail(lines), field)

RECURSIVE C1_SumToi(_)
C1_SumToi(lines) ==
  IF lines = <<>> THEN FloatOfInt(0)
  ELSE FloatAdd(C1_SumToi(SubSeq(lines, 1, Len(lines) - 1)),
                toi_float_of(lines[Len(lines)].timeOnIce))

\* C1: at the end of show_nat_games the totals are the field-wise sum over
\* exactly the indexed players of the nationality whose boxscore entry held
\* skater statistics; "did not play" and "game has not started" add nothing.
C1_TotalsAreSums ==
  ReportDone =>
    LET lines == C1_Lines(1, 1, 1)
    IN  totals = [count     |-> Len(lines),
                  goals     |-> C1_Sum(lines, "goals"),
                  assists   |-> C1_Sum(lines, "assists"),
                  points    |-> C1_Sum(lines, "goals") + C1_Sum(lines, "assists"),
                  toi       |-> C1_SumToi(lines),
                  hits      |-> C1_Sum(lines, "hits"),
                  blocks    |-> C1_Sum(lines, "blocked"),
                  plusminus |-> C1_Sum(lines, "plusMinus"),
                  pim       |-> C1_Sum(lines, "penaltyMinutes"),
                  fo_win    |-> C1_Sum(lines, "faceOffWins"),
                  fo_total  |-> C1_Sum(lines, "faceoffTaken")]

C1_Witness ==
  /\ ReportDone
  /\ totals.count = 1
  /\ totals.goals = 2
  /\ \E n \in 1..Len(out) : out[n].kind = "not started"
  /\ \E n \in 1..Len(out) : out[n].kind = "did not play"

C2_NatPositions == {i \in 1..Len(Index) : Index[i].nationality = args.nationality}

\* the candidates of all the games of the day
C2_CandidatePositions ==
  {i \in C2_NatPositions : \E g \in 1..Len(games), s \in 1..2 : C_Candidate(g, s, i)}

C2_Ids(ps) == {Index[i].id : i \in ps}

C2_UniqueIds ==
  \A i, j \in C2_NatPositions : i # j => Index[i].id # Index[j].id

\* C2: the "without a game" list is the indexed players of the nationality
\* minus the candidates of all the day's games: those whose team is in no
\* game are listed, those who "did not play" are not, and with no games
\* every player is listed.
C2_NoGameList ==
  ReportDone =>
    /\ Range(no_game) \subseteq C2_NatPositions
    /\ C2_Ids(Range(no_game)) = C2_Ids(C2_NatPositions) \ C2_Ids(C2_CandidatePositions)
    /\ \A n \in 1..Len(out) :
         out[n].kind = "did not play" => out[n].id \notin C2_Ids(Range(no_game))
    /\ Len(games) = 0 => Range(no_game) = C2_NatPositions
    /\ C2_UniqueIds =>
         /\ Range(no_game) = C2_NatPositions \ C2_CandidatePositions
         /\ \A m, n \in 1..Len(no_game) : m < n => no_game[m] < no_game[n]

C2_Witness ==
  /\ ReportDone
  /\ Len(games) = 2
  /\ Len(no_game) = 1
  /\ \E n \in 1..Len(out) : out[n].kind = "did not play"
  /\ \E n \in 1..Len(out) : out[n].kind = "stats"

C10_PlayerKinds == {"not started", "did not play", "stats"}

C10_ReportKinds == C10_PlayerKinds \cup {"header"}

C10_SideNo(side) == IF side = "away" THEN 1 ELSE IF side = "home" THEN 2 ELSE 0

\* (game, side, index position) of line a comes before that of line b
C10_Before(a, b) ==
  \/ a.game < b.game
  \/ a.game = b.game /\ C10_SideNo(a.side) < C10_SideNo(b.side)
  \/ a.game = b.game /\ a.side = b.side /\ a.idx < b.idx

C10_StatsLines == {n \in 1..Len(out) : out[n].kind = "stats"}

\* C10: the lines and the totals updates come game by game in schedule
\* order, within a game the away side before the home side, each side in
\* index order; a game without candidates has its header and nothing else.
\* (The report's lines are consecutive in the output, so that each line
\* coming before the next one orders them all.)
C10_ReportOrder ==
  /\ \A n \in 1..Len(out) :
       /\ out[n].kind \in {"players", "games"} => n <= 2
       /\ out[n].kind = "totals" => n = Len(out)
       /\ n > 1 /\ out[n - 1].kind \in C10_ReportKinds /\ out[n].kind \in C10_ReportKinds
            => C10_Before(out[n - 1], out[n])
  /\ \A n \in 1..Len(out) :
       out[n].kind \in C10_PlayerKinds =>
         /\ out[n].game \in 1..Len(games)
         /\ out[n].idx \in 1..Len(Index)
         /\ C_Candidate(out[n].game, C10_SideNo(out[n].side), out[n].idx)
         /\ \E m \in 1..(n - 1) : out[m].kind = "header" /\ out[m].game = out[n].game
  /\ pc \in {"game", "away", "home"} \/ ReportDone =>
       /\ totals.count = Cardinality(C10_StatsLines)
       /\ \A g \in 1..Len(games) :
            (g < gi \/ (g = gi /\ pc \in {"away", "home"}))
              => \E n \in 1..Len(out) : out[n].kind = "header" /\ out[n].game = g
  /\ ReportDone =>
       \A g \in 1..Len(games), s \in 1..2, i \in 1..Len(Index) :
         C_Candidate(g, s, i) /\ ~(C_Entry(g, s, i) \notin {Unknown, Absent}
                                    /\ ~("skaterStats" \in DOMAIN C_Entry(g, s, i).stats))
           => \E n \in 1..Len(out) :
                /\ out[n].kind \in C10_PlayerKinds
                /\ out[n].game = g /\ out[n].side = C_SideName(s) /\ out[n].idx = i

C10_Witness ==
  /\ ReportDone
  /\ Len(games) = 2
  /\ ~(\E n \in 1..Len(out) : out[n].kind \in C10_PlayerKinds /\ out[n].game = 1)
  /\ \E m, n \in 1..Len(out) :
       /\ m < n
       /\ out[m].kind = "stats" /\ out[n].kind = "did not play"
       /\ out[m].game = 2 /\ out[n].game = 2
       /\ out[m].side = "home" /\ out[n].side = "home"

\* C9: formatting the fractional-minutes value of a mm:ss string gives the
\* same minutes and the same zero-padded seconds back.
C9_RoundTrip == toi_pc = "done" => toi_out = toi_in

====
